---- MODULE Spec2Model ----
(***************************************************************************)
(* Model of workers/re_uniq.py: main(input_buf, output_buf, args) keeps,   *)
(* of every run of consecutive lines matching args.pattern, only the first *)
(* line, and passes every other line through.                              *)
(*                                                                         *)
(* A line and a pattern are sequences of one-character strings.  The       *)
(* patterns of the model are literal patterns, plus the opening            *)
(* parenthesis, which re.compile rejects when nothing closes it.           *)
(***************************************************************************)
EXTENDS Integers, Sequences, FiniteSets, TLC

\* ---------------------------------------------------------------- bounds
MaxLen == 4
MaxLineLen == 2
MaxPat == 1
MaxRuns == 2

\* --------------------------------------------------- program constants
\* one below the first index instead of two below it
SentinelMinusOne == 0 - 1
Sentinel == -2

LineChars == {"a", "X"}
PatChars == {"a", "X", "("}

SeqsUpTo(S, n) == UNION {[1..k -> S] : k \in 0..n}

Lines == SeqsUpTo(LineChars, MaxLineLen)
Inputs == SeqsUpTo(Lines, MaxLen)
Patterns == SeqsUpTo(PatChars, MaxPat)

VARIABLES
    input,      \* input_buf: the lines, in order
    pattern,    \* args.pattern
    pc,         \* "compile", "fetch", "body", "done", "error"
    found,      \* the cursor
    count,      \* enumerate(input_buf): number of lines pulled so far
    out,        \* output_buf: the lines written, in order
    outIdx,     \* history: the index i of each write, in order
    searches,   \* history: searches[k+1] = matcher.search calls on line k
    prior       \* history: the inputs of the earlier invocations, in order

vars == <<input, pattern, pc, found, count, out, outIdx, searches, prior>>

\* ------------------------------------------------------------- matcher
\* re.compile(args.pattern) raises re.error on an unterminated group.
Valid(p) == \A k \in 1..Len(p) : p[k] # "("

\* matcher.search(line): the pattern occurs somewhere in the line.
Search(p, l) ==
    \E k \in 1..(Len(l) - Len(p) + 1) : SubSeq(l, k, k + Len(p) - 1) = p

\* ---------------------------------------------------- loop variables
\* i, line of "for i, line in enumerate(input_buf)" inside the body.
i == count - 1
line == input[count]

\* the two parenthesised tests of lines 13 and 17
NotAdjacent(idx, f) == idx - f # 1
Adjacent(idx, f) == idx - f = 1

\* ---------------------------------------------------------------- Init
\* main is entered and line 10 has run.
Init ==
    /\ input \in Inputs
    /\ pattern \in Patterns
    /\ pc = "compile"
    /\ found = Sentinel
    /\ count = 0
    /\ out = << >>
    /\ outIdx = << >>
    /\ searches = << >>
    /\ prior = << >>

\* ------------------------------------------------------------- actions
\* line 11, the pattern compiles
CompileOkUnchecked ==
    /\ pc = "compile"
    /\ pc' = "fetch"
    /\ UNCHANGED <<prior, input, pattern, found, count, out, outIdx, searches>>

CompileOk ==
    /\ pc = "compile"
    /\ Valid(pattern)
    /\ pc' = "fetch"
    /\ UNCHANGED <<prior, input, pattern, found, count, out, outIdx, searches>>

\* line 11, re.compile raises: main is left through the exception
CompileFail ==
    /\ pc = "compile"
    /\ ~Valid(pattern)
    /\ pc' = "error"
    /\ UNCHANGED <<prior, input, pattern, found, count, out, outIdx, searches>>

\* line 12, the iterator yields the next (i, line)
FetchSkips ==
    /\ pc = "fetch"
    /\ count < Len(input)
    /\ count' = IF count + 2 <= Len(input) THEN count + 2 ELSE count + 1
    /\ pc' = "body"
    /\ UNCHANGED <<prior, input, pattern, found, out, outIdx, searches>>

Fetch ==
    /\ pc = "fetch"
    /\ count < Len(input)
    /\ count' = count + 1
    /\ pc' = "body"
    /\ UNCHANGED <<prior, input, pattern, found, out, outIdx, searches>>

\* line 12, the iterator is exhausted: main returns
ExhaustedEarly ==
    /\ pc = "fetch"
    /\ count >= Len(input) - 1
    /\ pc' = "done"
    /\ UNCHANGED <<prior, input, pattern, found, count, out, outIdx, searches>>

Exhausted ==
    /\ pc = "fetch"
    /\ count >= Len(input)
    /\ pc' = "done"
    /\ UNCHANGED <<prior, input, pattern, found, count, out, outIdx, searches>>

\* lines 13-16: a matching line that does not follow a matching line
EmitMatchNoContinue ==
    /\ pc = "body"
    /\ Search(pattern, line) /\ NotAdjacent(i, found)
    /\ out' = Append(Append(out, line), line)
    /\ outIdx' = Append(Append(outIdx, i), i)
    /\ found' = i
    /\ searches' = Append(searches, 2)
    /\ pc' = "fetch"
    /\ UNCHANGED <<prior, input, pattern, count>>

EmitMatch ==
    /\ pc = "body"
    /\ Search(pattern, line) /\ NotAdjacent(i, found)
    /\ out' = Append(out, line)
    /\ outIdx' = Append(outIdx, i)
    /\ found' = i
    /\ searches' = Append(searches, 1)
    /\ pc' = "fetch"
    /\ UNCHANGED <<prior, input, pattern, count>>

\* lines 17-19: a matching line right after a matching line
SkipMatchKeepsCursor ==
    /\ pc = "body"
    /\ ~(Search(pattern, line) /\ NotAdjacent(i, found))
    /\ Search(pattern, line) /\ Adjacent(i, found)
    /\ searches' = Append(searches, 2)
    /\ pc' = "fetch"
    /\ UNCHANGED <<prior, input, pattern, count, found, out, outIdx>>

SkipMatch ==
    /\ pc = "body"
    /\ ~(Search(pattern, line) /\ NotAdjacent(i, found))
    /\ Search(pattern, line) /\ Adjacent(i, found)
    /\ found' = i
    /\ searches' = Append(searches, 2)
    /\ pc' = "fetch"
    /\ UNCHANGED <<prior, input, pattern, count, out, outIdx>>

\* line 21: neither test held
PassThroughMovesCursor ==
    /\ pc = "body"
    /\ ~(Search(pattern, line) /\ NotAdjacent(i, found))
    /\ ~(Search(pattern, line) /\ Adjacent(i, found))
    /\ out' = Append(out, line)
    /\ outIdx' = Append(outIdx, i)
    /\ found' = i
    /\ searches' = Append(searches, 2)
    /\ pc' = "fetch"
    /\ UNCHANGED <<prior, input, pattern, count>>

PassThroughUniq ==
    /\ pc = "body"
    /\ ~(Search(pattern, line) /\ NotAdjacent(i, found))
    /\ ~(Search(pattern, line) /\ Adjacent(i, found))
    /\ out' = IF Len(out) > 0 /\ out[Len(out)] = line THEN out ELSE Append(out, line)
    /\ outIdx' = IF Len(out) > 0 /\ out[Len(out)] = line THEN outIdx ELSE Append(outIdx, i)
    /\ searches' = Append(searches, 2)
    /\ pc' = "fetch"
    /\ UNCHANGED <<prior, input, pattern, count, found>>

PassThrough ==
    /\ pc = "body"
    /\ ~(Search(pattern, line) /\ NotAdjacent(i, found))
    /\ ~(Search(pattern, line) /\ Adjacent(i, found))
    /\ out' = Append(out, line)
    /\ outIdx' = Append(outIdx, i)
    /\ searches' = Append(searches, 2)
    /\ pc' = "fetch"
    /\ UNCHANGED <<prior, input, pattern, count, found>>

Next ==
    \/ CompileOk
    \/ CompileFail
    \/ Fetch
    \/ Exhausted
    \/ EmitMatch
    \/ SkipMatch
    \/ PassThrough

Spec == Init /\ [][Next]_vars

\* lines 23-32 once more: main has returned and the program is invoked again
\* with the same pattern, on what the invocation before it wrote
Rerun ==
    /\ pc = "done"
    /\ Len(prior) < MaxRuns - 1
    /\ prior' = Append(prior, input)
    /\ input' = out
    /\ pc' = "compile"
    /\ found' = Sentinel
    /\ count' = 0
    /\ out' = << >>
    /\ outIdx' = << >>
    /\ searches' = << >>
    /\ UNCHANGED pattern

NextChained ==
    \/ Next
    \/ Rerun

\* the program piped into itself
SpecChained == Init /\ [][NextChained]_vars

\* every statement of a sequential program is eventually executed
FairSpec == Spec /\ WF_vars(Next)

\* ------------------------------------------------------------- helpers
Matches(k) == Search(pattern, input[k + 1])
Indices == 0..(Len(input) - 1)
Written(k) == \E n \in 1..Len(outIdx) : outIdx[n] = k
TimesWritten(k) == Cardinality({n \in 1..Len(outIdx) : outIdx[n] = k})
\* s..e is a maximal run of matching lines
IsRun(s, e) ==
    /\ s <= e
    /\ \A k \in s..e : Matches(k)
    /\ (s = 0 \/ ~Matches(s - 1))
    /\ (e = Len(input) - 1 \/ ~Matches(e + 1))

TypeOK ==
    /\ input \in Inputs
    /\ pattern \in Patterns
    /\ pc \in {"compile", "fetch", "body", "done", "error"}
    /\ found \in (-2)..(MaxLen - 1)
    /\ count \in 0..Len(input)
    /\ out \in Seq(Lines)
    /\ Len(outIdx) = Len(out)
    /\ Len(searches) = (IF pc = "body" THEN count - 1 ELSE count)

\* lines 0..Processed-1 have been through the loop body
Processed == IF pc = "body" THEN count - 1 ELSE count

\* ------------------------------------------------------------------ C1
\* C1: of every maximal run s..e of matching lines, the lines s+1..e are
\* never written, and when main returns the line at s has been written
\* exactly once, as a copy of input line s.
RunCollapse ==
    \A s \in Indices : \A e \in Indices :
        IsRun(s, e) =>
            /\ \A k \in (s + 1)..e : ~Written(k)
            /\ pc = "done" =>
                  /\ TimesWritten(s) = 1
                  /\ \A n \in 1..Len(outIdx) :
                        outIdx[n] = s => out[n] = input[s + 1]

\* a finished pass over an input with a run of three lines not at index 0
RunCollapseWitness ==
    /\ pc = "done"
    /\ \E s \in Indices : \E e \in Indices :
          IsRun(s, e) /\ s > 0 /\ e >= s + 2 /\ Len(out) = Len(input) - (e - s)

\* ------------------------------------------------------------------ C2
\* C2: when main returns, every line the matcher rejects has been written
\* exactly once, unmodified, and the rejected lines appear in the output in
\* their input order.
NonMatchingPassThrough ==
    pc = "done" =>
        /\ \A k \in Indices : ~Matches(k) =>
              /\ TimesWritten(k) = 1
              /\ \A n \in 1..Len(outIdx) :
                    outIdx[n] = k => out[n] = input[k + 1]
        /\ \A n \in 1..Len(outIdx) : \A m \in 1..Len(outIdx) :
              (n < m /\ ~Matches(outIdx[n]) /\ ~Matches(outIdx[m]))
                  => outIdx[n] < outIdx[m]

\* a finished pass with two equal rejected lines in a row, the first of
\* them right after a matching line (the cursor is adjacent to it)
NonMatchingPassThroughWitness ==
    /\ pc = "done"
    /\ \E k \in Indices :
          /\ k >= 1 /\ k + 1 \in Indices
          /\ Matches(k - 1) /\ ~Matches(k) /\ ~Matches(k + 1)
          /\ input[k + 1] = input[k + 2]
          /\ Written(k) /\ Written(k + 1)

\* ------------------------------------------------------------------ C3
\* C3: at every point of the pass the output is a subsequence of the lines
\* pulled so far: every write is a copy of an input line already pulled,
\* and the written indices are strictly increasing.
OutputIsSubsequence ==
    /\ Len(out) = Len(outIdx)
    /\ \A n \in 1..Len(outIdx) :
          /\ outIdx[n] \in 0..(count - 1)
          /\ out[n] = input[outIdx[n] + 1]
          /\ n > 1 => outIdx[n - 1] < outIdx[n]

\* mid-pass, after a suppressed line and at least two writes
OutputIsSubsequenceWitness ==
    /\ pc = "fetch"
    /\ count < Len(input)
    /\ Len(out) >= 2
    /\ Len(out) < count

\* ------------------------------------------------------------------ C4
\* C4: when main returns, a matching line that comes right after a rejected
\* line has been written; two matching lines around a single rejected line
\* are both written when the first starts its run; and pattern X on
\* [X, a, X] gives [X, a, X].
NonAdjacencyPreservesBoth ==
    pc = "done" =>
        /\ \A j \in Indices :
              (j >= 1 /\ Matches(j) /\ ~Matches(j - 1)) => Written(j)
        /\ \A j \in Indices :
              (/\ j >= 2 /\ Matches(j) /\ ~Matches(j - 1) /\ Matches(j - 2)
               /\ (j = 2 \/ ~Matches(j - 3)))
                  => Written(j - 2) /\ Written(j)
        /\ (pattern = <<"X">> /\ input = << <<"X">>, <<"a">>, <<"X">> >>)
              => out = input

\* the pass over [X, a, X] with pattern X has finished
NonAdjacencyWitness ==
    /\ pc = "done"
    /\ pattern = <<"X">>
    /\ input = << <<"X">>, <<"a">>, <<"X">> >>
    /\ Len(out) = 3

\* ------------------------------------------------------------------ C5
\* C5: when main returns and the matcher rejected every line, the output
\* equals the input.
NoMatchesOutputEqualsInput ==
    (pc = "done" /\ \A k \in Indices : ~Matches(k)) => out = input

\* a finished pass over at least three rejected lines, two of them equal
NoMatchesWitness ==
    /\ pc = "done"
    /\ Len(input) >= 3
    /\ \A k \in Indices : ~Matches(k)
    /\ input[1] = input[2]
    /\ input[3] # input[2]

\* ------------------------------------------------------------------ C6
\* C6: when main returns and the matcher accepted every line of a non-empty
\* input, the output is input line 0 alone.
AllMatchesOutputIsFirstLine ==
    (pc = "done" /\ Len(input) >= 1 /\ \A k \in Indices : Matches(k))
        => out = <<input[1]>>

\* a finished pass over at least three accepted lines, not all equal
AllMatchesWitness ==
    /\ pc = "done"
    /\ Len(input) >= 3
    /\ \A k \in Indices : Matches(k)
    /\ input[1] # input[2]
    /\ Len(out) = 1

\* ------------------------------------------------------------------ C7
\* C7: with a pattern that does not compile, no line is ever pulled from
\* the input and nothing is ever written: main is at line 11 or has left
\* through the exception.
InvalidPatternNoProcessing ==
    ~Valid(pattern) =>
        /\ count = 0
        /\ out = << >>
        /\ pc \in {"compile", "error"}

\* re.compile has raised on a non-empty input
InvalidPatternWitness ==
    /\ pc = "error"
    /\ ~Valid(pattern)
    /\ Len(input) >= 1

\* ------------------------------------------------------------------ C8
\* C8: on the empty input nothing is ever written, and when main returns
\* the cursor is still -2.
EmptyInputEmptyOutput ==
    input = << >> =>
        /\ out = << >>
        /\ pc = "done" => found = -2

\* the pass over the empty input has finished
EmptyInputWitness ==
    /\ pc = "done"
    /\ input = << >>
    /\ count = 0

\* ------------------------------------------------------------------ C9
\* the processed matching lines that were written
EmittedMatches == {k \in 0..(Processed - 1) : Matches(k) /\ Written(k)}
ProcessedMatches == {k \in 0..(Processed - 1) : Matches(k)}
IsMax(k, S) == k \in S /\ \A m \in S : m <= k

\* C9 as stated: the cursor is -2 or the index of the most recently
\* written matching line.
CursorIsLastEmittedMatch ==
    found = -2 \/ IsMax(found, EmittedMatches)

\* C9 as amended: the cursor is -2 or the index of the most recently
\* processed matching line, written or suppressed.
CursorIsLastProcessedMatch ==
    found = -2 \/ IsMax(found, ProcessedMatches)

\* the cursor sits on a suppressed line
CursorWitness ==
    /\ pc = "fetch"
    /\ found >= 1
    /\ ~Written(found)
    /\ Written(found - 1)

\* ----------------------------------------------------------------- C10
\* C10: the first write, if any, is input line 0, and once line 0 has been
\* through the loop body it has been written, whether or not it matches.
FirstLineAlwaysWritten ==
    /\ Len(outIdx) >= 1 => (outIdx[1] = 0 /\ out[1] = input[1])
    /\ Processed >= 1 => (Len(outIdx) >= 1 /\ TimesWritten(0) = 1)

\* a finished pass whose line 0 matches, on at least two lines
FirstLineWitness ==
    /\ pc = "done"
    /\ Len(input) >= 2
    /\ Matches(0)
    /\ Written(0)

\* ----------------------------------------------------------------- C11
\* C11: the step that processes a rejected line leaves the cursor alone and
\* only appends that line to the output; hence a matching line that comes
\* right after a rejected line is at least two past the cursor when its
\* turn comes.
NonMatchingKeepsCursor ==
    /\ [][(pc = "body" /\ ~Search(pattern, line)) =>
              /\ found' = found
              /\ out' = Append(out, line)
              /\ count' = count /\ input' = input /\ pattern' = pattern]_vars
    /\ []((/\ pc = "body"
            /\ Matches(i)
            /\ \E m \in 0..(i - 1) :
                  ~Matches(m) /\ \A k \in (m + 1)..(i - 1) : ~Matches(k))
              => i - found >= 2)

\* a matching line is up, right after a rejected line that followed a match
NonMatchingKeepsCursorWitness ==
    /\ pc = "body"
    /\ i >= 2
    /\ Matches(i) /\ ~Matches(i - 1) /\ Matches(i - 2)
    /\ found = i - 2
    /\ Written(i - 1)

\* ----------------------------------------------------------------- C12
\* whether line k is written, as a function of lines 0..k alone
Decision(k) == ~Matches(k) \/ k = 0 \/ ~Matches(k - 1)

\* C12: a line is pulled only once every line before it has been decided,
\* a write is the current line and happens before the next line is pulled,
\* and whether a processed line was written is a function of the lines up
\* to it.
Streaming ==
    /\ [](\A k \in 0..(Processed - 1) : Written(k) <=> Decision(k))
    /\ [](\A n \in 1..Len(outIdx) : outIdx[n] < count)
    /\ [](Len(searches) = Processed)
    /\ [][/\ count' # count =>
                (count' = count + 1 /\ Processed = count /\ out' = out)
          /\ out' # out =>
                /\ pc = "body" /\ count' = count
                /\ out' = Append(out, input[count])
                /\ outIdx' = Append(outIdx, count - 1)]_vars

\* mid-pass: two lines written, one suppressed, the next line just pulled
StreamingWitness ==
    /\ pc = "body"
    /\ Len(out) >= 2
    /\ Len(out) < count - 1

\* ----------------------------------------------------------------- C13
\* C13: with a pattern that compiles, main returns, never fails, pulls the
\* lines one index at a time, and returns after every line has been through
\* the loop body exactly once.
TerminatesAfterOnePass ==
    /\ <>(pc \in {"done", "error"})
    /\ [](Valid(pattern) => pc # "error")
    /\ [](pc = "done" => (count = Len(input) /\ Len(searches) = Len(input)))
    /\ [][count' # count => (count' = count + 1 /\ Processed = count)]_vars

\* main has returned from a pass over the longest inputs
TerminatesWitness ==
    /\ pc = "done"
    /\ Len(input) >= 3
    /\ count = Len(input)
    /\ Len(searches) = Len(input)

\* ----------------------------------------------------------------- C14
\* C14 as stated: matcher.search is called twice on a line exactly when the
\* line matches.
TwoSearchesIffMatch ==
    \A k \in 0..(Len(searches) - 1) : (searches[k + 1] = 2) <=> Matches(k)

\* C14 as amended: matcher.search is called once on a matching line that
\* starts a run and twice on every other line, matching or not.
SearchesPerLine ==
    \A k \in 0..(Len(searches) - 1) :
        searches[k + 1] =
            IF Matches(k) /\ (k = 0 \/ ~Matches(k - 1)) THEN 1 ELSE 2

\* a run's first line, a suppressed line and a rejected line are all done
SearchesWitness ==
    /\ Len(searches) >= 3
    /\ \E k \in 0..(Len(searches) - 3) :
          Matches(k) /\ Matches(k + 1) /\ ~Matches(k + 2) /\ Written(k)

\* ----------------------------------------------------------------- C15
\* the largest matching index below n, or -2
LastMatchBelow(n) ==
    IF \E k \in 0..(n - 1) : Matches(k)
    THEN CHOOSE k \in 0..(n - 1) :
             Matches(k) /\ \A m \in (k + 1)..(n - 1) : ~Matches(m)
    ELSE -2

\* C15: once lines 0..n-1 are processed the cursor is the largest matching
\* index below n, or -2 if there is none; and a processed line k >= 1 is
\* suppressed exactly when it and line k-1 both match.
CursorIsLargestMatch ==
    /\ found = LastMatchBelow(Processed)
    /\ \A k \in 1..(Processed - 1) :
          ~Written(k) <=> (Matches(k) /\ Matches(k - 1))

\* the cursor is behind the last processed line, after a suppressed line
CursorIsLargestMatchWitness ==
    /\ pc = "fetch"
    /\ count >= 3
    /\ found = count - 2
    /\ ~Written(found)

\* ----------------------------------------------------------------- C16
\* C16: no two neighbouring lines of the output both match the pattern.
NoAdjacentMatchesInOutput ==
    \A n \in 1..(Len(out) - 1) :
        ~(Search(pattern, out[n]) /\ Search(pattern, out[n + 1]))

\* a finished pass that suppressed a line and wrote two matching lines
NoAdjacentMatchesWitness ==
    /\ pc = "done"
    /\ Len(out) < Len(input)
    /\ \E n \in 1..Len(out) : \E m \in 1..Len(out) :
          n < m /\ Search(pattern, out[n]) /\ Search(pattern, out[m])

\* ----------------------------------------------------------------- C17
\* C17: an invocation on what the invocation before it wrote, with the same
\* pattern, writes its input unchanged.
Idempotent ==
    (pc = "done" /\ Len(prior) >= 1) => out = input

\* the second invocation has returned; the first one had suppressed a line
IdempotentWitness ==
    /\ pc = "done"
    /\ Len(prior) >= 1
    /\ Len(prior[1]) > Len(input)
    /\ Len(out) >= 2
    /\ \E n \in 1..Len(out) : Search(pattern, out[n])

====
